---- MODULE Spec2Model ----
(***************************************************************************)
(* Model of CloudSyncPlugin.syncNow (src/main.ts): the reconciliation of   *)
(* the local vault, the Google Drive app folder and settings.fileMap.      *)
(*                                                                         *)
(* Paths are tuples: <<"a">> is a vault path, Append(p, t) the conflict    *)
(* backup of p made at time t.  Times are naturals read from one clock,    *)
(* `now`; a write stamps now or now + 1.  Contents are tokens <<side, t>>. *)
(* An absent remoteMtime (undefined) is Epoch0, as Date.parse-or-0 makes   *)
(* of it in the code.                                                      *)
(***************************************************************************)
EXTENDS Naturals, Sequences, FiniteSets, TLC

\* ---------------------------------------------------------------- bounds
MaxTime == 4
MaxIds == 3
MaxEdits == 2
MaxRuns == 3
MaxFaults == 1
NRuns == 2

Epoch0 == 0

BasePaths == {<<"a">>, <<"b">>}
\* the paths changed from outside the plugin
EditPaths == {<<"a">>}
Runs == 1..NRuns

VARIABLES
    local,      \* the vault: path -> [mtime, content]
    remote,     \* the Drive app folder: id -> [name, modifiedTime, content]
    nextId,     \* the next id Drive hands out
    now,        \* the clock
    fileMap,    \* settings.fileMap: path -> FileSyncState
    persisted,  \* the fileMap last written by saveSettings
    run,        \* per invocation of syncNow: its locals and position
    prevClean,  \* the last run returned without a failure and nothing changed since
    edits,      \* number of changes made outside the plugin
    started,    \* number of runs started
    faults      \* number of operations made to fail

vars == <<local, remote, nextId, now, fileMap, persisted, run, prevClean, edits,
          started, faults>>

\* --------------------------------------------------------------- helpers
Empty == <<>>

\* Put with every other key dropped
Put_Only(f, k, v) == [x \in {k} |-> v]

Put(f, k, v) == [x \in (DOMAIN f) \cup {k} |-> IF x = k THEN v ELSE f[x]]

Del(f, k) ==
    IF (DOMAIN f) \ {k} = {} THEN Empty ELSE [x \in (DOMAIN f) \ {k} |-> f[x]]

RECURSIVE SetToSeq(_)
SetToSeq(S) ==
    IF S = {} THEN <<>>
    ELSE LET x == CHOOSE y \in S : TRUE IN <<x>> \o SetToSeq(S \ {x})

Stamps == {t \in {now, now + 1} : t <= MaxTime}

Md5(content) == <<"md5", content>>
NoMd5 == <<>>

\* `${stem}_local_conflict_${timestamp}${ext}`
ConflictPath(path, timestamp) == Append(path, timestamp)

\* One entry of a Drive listing: files(id, name, mimeType, modifiedTime, md5Checksum)
DriveFile(id, obj) ==
    [id |-> id, modifiedTime |-> obj.modifiedTime, md5Checksum |-> Md5(obj.content)]

NoPre ==
    [local |-> Empty, remote |-> Empty, fileMap |-> Empty,
     localFiles |-> Empty, remoteFilesMap |-> Empty, last |-> {}]

\* What a run that returned leaves to the next one to look back at.
NoLast == [uploads |-> {}, local |-> Empty, remote |-> Empty]

IdleRun ==
    [pc |-> "idle", localFiles |-> Empty, remoteFilesMap |-> Empty,
     queue |-> <<>>, failed |-> FALSE, did |-> {}, pre |-> NoPre, second |-> FALSE,
     aborted |-> FALSE, last |-> NoLast]

AllIdle == \A r \in Runs : run[r].pc = "idle"

\* ------------------------------------------------------------------ Init
Init ==
    /\ \E L \in SUBSET BasePaths :
         local = IF L = {} THEN Empty
                 ELSE [p \in L |-> [mtime |-> 1, content |-> <<"L", 1>>]]
    /\ \E p \in BasePaths, has \in BOOLEAN :
         /\ remote = IF has
                     THEN Put(Empty, 1, [name |-> p, modifiedTime |-> 1, content |-> <<"R", 1>>])
                     ELSE Empty
         /\ nextId = IF has THEN 2 ELSE 1
    /\ now = 1
    /\ fileMap = Empty
    /\ persisted = Empty
    /\ run = [r \in Runs |-> IdleRun]
    /\ prevClean = FALSE
    /\ edits = 0
    /\ started = 0
    /\ faults = 0

\* ------------------------------------------- changes outside the plugin
LocalWrite(p) ==
    /\ AllIdle /\ edits < MaxEdits
    /\ \E t \in Stamps :
         /\ local' = Put(local, p, [mtime |-> t, content |-> <<"L", t>>])
         /\ now' = t
    /\ edits' = edits + 1
    /\ prevClean' = FALSE
    /\ UNCHANGED <<remote, nextId, fileMap, persisted, run, started, faults>>

LocalRemove(p) ==
    /\ AllIdle /\ edits < MaxEdits
    /\ p \in DOMAIN local
    /\ local' = Del(local, p)
    /\ edits' = edits + 1
    /\ prevClean' = FALSE
    /\ UNCHANGED <<remote, nextId, now, fileMap, persisted, run, started, faults>>

RemoteWrite(p) ==
    /\ AllIdle /\ edits < MaxEdits
    /\ \E t \in Stamps :
         /\ now' = t
         /\ LET obj == [name |-> p, modifiedTime |-> t, content |-> <<"R", t>>]
                ids == {i \in DOMAIN remote : remote[i].name = p}
            IN IF ids = {}
               THEN /\ nextId <= MaxIds
                    /\ remote' = Put(remote, nextId, obj)
                    /\ nextId' = nextId + 1
               ELSE /\ \E i \in ids : remote' = [remote EXCEPT ![i] = obj]
                    /\ nextId' = nextId
    /\ edits' = edits + 1
    /\ prevClean' = FALSE
    /\ UNCHANGED <<local, fileMap, persisted, run, started, faults>>

RemoteRemove(i) ==
    /\ AllIdle /\ edits < MaxEdits
    /\ i \in DOMAIN remote
    /\ remote' = Del(remote, i)
    /\ edits' = edits + 1
    /\ prevClean' = FALSE
    /\ UNCHANGED <<local, nextId, now, fileMap, persisted, run, started, faults>>

\* ------------------------------------------------------------ syncNow
SetRun(r, rec) == run' = [run EXCEPT ![r] = rec]

\* An operation fails: because it cannot succeed in this state (forced), or
\* because the store, the network or the vault makes it fail.
Fails(forced) ==
    /\ forced \/ faults < MaxFaults
    /\ faults' = IF forced THEN faults ELSE faults + 1

NoFault == faults' = faults

\* The uploads of the run before, when the vault and Drive are as it left them.
LastUploads(r) ==
    IF run[r].last.local = local /\ run[r].last.remote = remote
    THEN run[r].last.uploads ELSE {}

\* lines 183-212: token and app folder; without them the run returns at once
StartSync(r) ==
    /\ run[r].pc = "idle"
    /\ started < MaxRuns
    /\ started' = started + 1
    /\ LET begun == [IdleRun EXCEPT
                       !.second = prevClean,
                       !.pre = [NoPre EXCEPT !.local = local, !.remote = remote,
                                             !.fileMap = fileMap,
                                             !.last = LastUploads(r)]]
       IN \/ /\ NoFault
             /\ SetRun(r, [begun EXCEPT !.pc = "snapshot"])
          \/ /\ Fails(FALSE)
             /\ SetRun(r, [begun EXCEPT !.pc = "done", !.failed = TRUE,
                                         !.aborted = TRUE])
    /\ UNCHANGED <<local, remote, nextId, now, fileMap, persisted, prevClean, edits>>

\* lines 217-235: stat every vault file; a file whose stat fails is left out
LocalSnapshot(r) ==
    /\ run[r].pc = "snapshot"
    /\ \E bad \in SUBSET (DOMAIN local) :
         LET seen == (DOMAIN local) \ bad
             lf == IF seen = {} THEN Empty ELSE [p \in seen |-> local[p].mtime]
         IN /\ faults + Cardinality(bad) <= MaxFaults
            /\ faults' = faults + Cardinality(bad)
            /\ SetRun(r, [run[r] EXCEPT
                            !.pc = "list",
                            !.localFiles = lf,
                            !.queue = SetToSeq(seen),
                            !.failed = @ \/ bad # {},
                            !.pre = [@ EXCEPT !.localFiles = lf]])
    /\ UNCHANGED <<local, remote, nextId, now, fileMap, persisted, prevClean, edits,
                   started>>

\* lines 752-801 and 243-254: the listing, [] when it fails; of several
\* objects with one name the one listed last stays in the map
RemoteSnapshot(r) ==
    /\ run[r].pc = "list"
    /\ \/ LET names == {remote[i].name : i \in DOMAIN remote}
          IN \E pick \in [names -> DOMAIN remote] :
               /\ \A n \in names : remote[pick[n]].name = n
               /\ LET rm == IF names = {} THEN Empty
                            ELSE [n \in names |-> DriveFile(pick[n], remote[pick[n]])]
                  IN SetRun(r, [run[r] EXCEPT
                                  !.pc = "upload",
                                  !.remoteFilesMap = rm,
                                  !.pre = [@ EXCEPT !.remoteFilesMap = rm]])
               /\ NoFault
       \/ \* no token, no folder or a failed request: []
          /\ Fails(FALSE)
          /\ SetRun(r, [run[r] EXCEPT !.pc = "upload", !.failed = TRUE,
                                      !.did = @ \cup {<<"list_failed", <<>>>>}])
    /\ UNCHANGED <<local, remote, nextId, now, fileMap, persisted, prevClean, edits,
                   started>>

\* ------------------------------------------------------- upload pass
\* ClassifyUpload with a path that has no mapping left alone
ClassifyUpload_NewSkipped(fm, rfm, path, mtime) ==
    IF path \notin DOMAIN fm THEN "skip"
    ELSE LET existingMapping == fm[path]
             currentRemoteMtimeEpoch ==
                 IF path \in DOMAIN rfm THEN rfm[path].modifiedTime ELSE Epoch0
         IN IF existingMapping.localMtimeEpoch = Epoch0
               \/ mtime > existingMapping.localMtimeEpoch
            THEN IF path \in DOMAIN rfm
                    /\ currentRemoteMtimeEpoch > existingMapping.remoteMtime
                 THEN "conflict"
                 ELSE IF mtime > currentRemoteMtimeEpoch
                      THEN "upload_update"
                      ELSE "skip"
            ELSE "skip"

\* ClassifyUpload with one of its branches altered: "no_conflict" uploads a
\* conflicted path, "always_changed" leaves out the test of the local mtime,
\* "never_update" skips where it would update, "new_if_unlisted" uploads an
\* unmapped path only when Drive lists no such name, "update_on_tie" updates
\* although the remote entry is as new as the local file
ClassifyUploadVariant(fm, rfm, path, mtime, variant) ==
    IF path \notin DOMAIN fm
    THEN IF variant = "new_if_unlisted" /\ path \in DOMAIN rfm
         THEN "skip" ELSE "upload_new"
    ELSE LET existingMapping == fm[path]
             lastKnownRemoteMtimeEpoch == existingMapping.remoteMtime
             currentRemoteMtimeEpoch ==
                 IF path \in DOMAIN rfm THEN rfm[path].modifiedTime ELSE Epoch0
         IN IF \/ variant = "always_changed"
               \/ existingMapping.localMtimeEpoch = Epoch0
               \/ mtime > existingMapping.localMtimeEpoch
            THEN IF /\ variant # "no_conflict"
                    /\ path \in DOMAIN rfm
                    /\ currentRemoteMtimeEpoch > lastKnownRemoteMtimeEpoch
                 THEN "conflict"
                 ELSE IF \/ mtime > currentRemoteMtimeEpoch
                         \/ variant = "update_on_tie" /\ mtime = currentRemoteMtimeEpoch
                      THEN IF variant = "never_update" THEN "skip" ELSE "upload_update"
                      ELSE "skip"
            ELSE "skip"

ClassifyUpload_NoConflict(fm, rfm, path, mtime) ==
    ClassifyUploadVariant(fm, rfm, path, mtime, "no_conflict")

ClassifyUpload_AlwaysChanged(fm, rfm, path, mtime) ==
    ClassifyUploadVariant(fm, rfm, path, mtime, "always_changed")

ClassifyUpload_NeverUpdate(fm, rfm, path, mtime) ==
    ClassifyUploadVariant(fm, rfm, path, mtime, "never_update")

ClassifyUpload_NewIfUnlisted(fm, rfm, path, mtime) ==
    ClassifyUploadVariant(fm, rfm, path, mtime, "new_if_unlisted")

ClassifyUpload_UpdateOnTie(fm, rfm, path, mtime) ==
    ClassifyUploadVariant(fm, rfm, path, mtime, "update_on_tie")

\* lines 270-325: the operation chosen for a local path
ClassifyUpload(fm, rfm, path, mtime) ==
    IF path \notin DOMAIN fm THEN "upload_new"
    ELSE LET existingMapping == fm[path]
             lastKnownRemoteMtimeEpoch == existingMapping.remoteMtime
             currentRemoteMtimeEpoch ==
                 IF path \in DOMAIN rfm THEN rfm[path].modifiedTime ELSE Epoch0
         IN IF existingMapping.localMtimeEpoch = Epoch0
               \/ mtime > existingMapping.localMtimeEpoch
            THEN IF path \in DOMAIN rfm
                    /\ currentRemoteMtimeEpoch > lastKnownRemoteMtimeEpoch
                 THEN "conflict"
                 ELSE IF mtime > currentRemoteMtimeEpoch
                      THEN "upload_update"
                      ELSE "skip"
            ELSE "skip"

Note(r, what, path) == run[r].did \cup {<<what, path>>}

\* ConflictBackup with the new file left out of localFiles
ConflictBackup_NotQueued(r, path) ==
    LET free == {t \in Stamps : ConflictPath(path, t) \notin DOMAIN local}
        can == path \in DOMAIN local /\ free # {}
    IN
    \/ /\ Fails(~can)
       /\ SetRun(r, [run[r] EXCEPT !.queue = Tail(@), !.failed = TRUE,
                                   !.did = Note(r, "backup_failed", path)])
       /\ UNCHANGED <<local, now>>
    \/ /\ can
       /\ NoFault
       /\ \E t \in free :
            /\ local' = Put(local, ConflictPath(path, t),
                            [mtime |-> t, content |-> local[path].content])
            /\ now' = t
            /\ SetRun(r, [run[r] EXCEPT
                            !.queue = Tail(@),
                            !.did = Note(r, "backup", path)
                                      \cup {<<"backup_at", ConflictPath(path, t)>>}])

\* lines 290-309: the backup of a conflicted file
ConflictBackup(r, path) ==
    LET free == {t \in Stamps : ConflictPath(path, t) \notin DOMAIN local}
        can == path \in DOMAIN local /\ free # {}
    IN
    \/ \* readBinary or createBinary throws
       /\ Fails(~can)
       /\ SetRun(r, [run[r] EXCEPT !.queue = Tail(@), !.failed = TRUE,
                                   !.did = Note(r, "backup_failed", path)])
       /\ UNCHANGED <<local, now>>
    \/ /\ can
       /\ \E t \in free :
            LET conflictPath == ConflictPath(path, t) IN
            /\ local' = Put(local, conflictPath,
                            [mtime |-> t, content |-> local[path].content])
            /\ now' = t
            /\ \/ /\ NoFault
                  /\ SetRun(r, [run[r] EXCEPT
                                  !.localFiles = Put(@, conflictPath, t),
                                  !.queue = Append(Tail(@), conflictPath),
                                  !.did = Note(r, "backup", path)
                                            \cup {<<"backup_at", conflictPath>>}])
               \/ \* the stat of the new file fails
                  /\ Fails(FALSE)
                  /\ SetRun(r, [run[r] EXCEPT
                                  !.queue = Tail(@),
                                  !.failed = TRUE,
                                  !.did = Note(r, "backup", path)
                                            \cup {<<"backup_at", conflictPath>>}])

\* lines 345-350: the FileSyncState written after an upload
UploadedState(remoteId, mtime, updatedRemoteFile) ==
    [remoteId |-> remoteId,
     localMtimeEpoch |-> mtime,
     remoteMtime |-> updatedRemoteFile.modifiedTime,
     remoteMd5 |-> updatedRemoteFile.md5Checksum]

\* updatedRemoteFile when it is undefined: its fields read as undefined
NoDriveFile == [id |-> 0, modifiedTime |-> Epoch0, md5Checksum |-> NoMd5]

\* lines 342-343: the metadata taken for the file just uploaded
UpdatedRemoteFile(rfm, path, remoteId, listed) ==
    IF path \in DOMAIN rfm THEN rfm[path]
    ELSE IF remoteId \in DOMAIN listed THEN DriveFile(remoteId, listed[remoteId])
    ELSE NoDriveFile

\* FailedUpload with an entry written for the path all the same
FailedUpload_Speculative(fm, path) ==
    Put(fm, path, UploadedState(0, Epoch0, NoDriveFile))

\* lines 353-359: the fileMap after an upload that failed
FailedUpload(fm, path) == fm

\* lines 329-360: read the file, upload it, record the result
ExecuteUpload(r, path, operation) ==
    LET remoteId == IF operation = "upload_update" THEN fileMap[path].remoteId ELSE nextId
        rfm == run[r].remoteFilesMap
        can == /\ path \in DOMAIN local
               /\ IF operation = "upload_update"
                  THEN remoteId \in DOMAIN remote ELSE nextId <= MaxIds
    IN
    \/ \* readBinary throws or uploadGoogleDriveFile returns null
       /\ Fails(~can)
       /\ SetRun(r, [run[r] EXCEPT !.queue = Tail(@), !.failed = TRUE,
                                   !.did = Note(r, "upload_failed", path)])
       /\ fileMap' = FailedUpload(fileMap, path)
       /\ UNCHANGED <<remote, nextId, now>>
    \/ /\ can
       /\ \E t \in Stamps, listOk \in BOOLEAN :
            /\ nextId' = IF operation = "upload_update" THEN nextId ELSE nextId + 1
            /\ remote' = Put(remote, remoteId,
                             [name |-> path, modifiedTime |-> t,
                              content |-> local[path].content])
            /\ now' = t
            /\ IF listOk \/ path \in DOMAIN rfm THEN listOk /\ NoFault ELSE Fails(FALSE)
            /\ LET updatedRemoteFile ==
                       UpdatedRemoteFile(rfm, path, remoteId,
                                         IF listOk THEN remote' ELSE Empty)
                   found == updatedRemoteFile # NoDriveFile
               IN /\ fileMap' = Put(fileMap, path,
                                    UploadedState(remoteId, run[r].localFiles[path],
                                                  updatedRemoteFile))
                  /\ SetRun(r, [run[r] EXCEPT
                                  !.queue = Tail(@),
                                  !.failed = @ \/ ~found,
                                  !.did = Note(r, "upload", path),
                                  !.remoteFilesMap =
                                      IF found THEN Put(@, path, updatedRemoteFile) ELSE @])

\* ConflictSkipsUpload with an entry recorded for the conflicted path as if
\* it had been uploaded
ConflictSkipsUpload_Records(fm, path) ==
    Put(fm, path, UploadedState(fm[path].remoteId, Epoch0, NoDriveFile))

\* line 286: a conflict sets operation = 'skip'; no upload, no fileMap write
ConflictSkipsUpload(fm, path) == fm

\* lines 269-361: one iteration of the loop over localFiles
UploadStep(r) ==
    /\ run[r].pc = "upload"
    /\ run[r].queue # <<>>
    /\ LET path == Head(run[r].queue)
           operation == ClassifyUpload(fileMap, run[r].remoteFilesMap, path,
                                       run[r].localFiles[path])
       IN CASE operation = "conflict" ->
                 /\ ConflictBackup(r, path)
                 /\ fileMap' = ConflictSkipsUpload(fileMap, path)
                 /\ UNCHANGED <<remote, nextId>>
            [] operation \in {"upload_new", "upload_update"} ->
                 /\ ExecuteUpload(r, path, operation)
                 /\ UNCHANGED local
            [] OTHER ->
                 /\ SetRun(r, [run[r] EXCEPT !.queue = Tail(@)])
                 /\ NoFault
                 /\ UNCHANGED <<local, remote, nextId, now, fileMap>>
    /\ UNCHANGED <<persisted, prevClean, edits, started>>

\* line 362: saveSettings, then the loop over remoteFilesMap begins
UploadDone(r) ==
    /\ run[r].pc = "upload"
    /\ run[r].queue = <<>>
    /\ persisted' = fileMap
    /\ SetRun(r, [run[r] EXCEPT !.pc = "download",
                                !.queue = SetToSeq(DOMAIN run[r].remoteFilesMap)])
    /\ UNCHANGED <<local, remote, nextId, now, fileMap, prevClean, edits, started, faults>>

\* ----------------------------------------------------- download pass
\* ClassifyDownload with a remote entry as old as the last known one taken
\* for a changed one
ClassifyDownload_TieDownloads(fm, lf, path, remoteMtimeEpoch) ==
    IF path \notin DOMAIN lf THEN "download_new"
    ELSE LET lastKnownRemoteMtimeEpoch ==
                 IF path \in DOMAIN fm THEN fm[path].remoteMtime ELSE Epoch0
         IN IF remoteMtimeEpoch >= lastKnownRemoteMtimeEpoch
            THEN IF remoteMtimeEpoch > lf[path] THEN "download_update" ELSE "skip"
            ELSE "skip"

\* ClassifyDownload with the test against the last known remoteMtime left out
ClassifyDownload_IgnoresLastKnown(fm, lf, path, remoteMtimeEpoch) ==
    IF path \notin DOMAIN lf THEN "download_new"
    ELSE IF remoteMtimeEpoch > lf[path] THEN "download_update" ELSE "skip"

\* ClassifyDownload with a changed remote entry downloaded whatever the
\* local mtime
ClassifyDownload_IgnoresLocal(fm, lf, path, remoteMtimeEpoch) ==
    IF path \notin DOMAIN lf THEN "download_new"
    ELSE LET lastKnownRemoteMtimeEpoch ==
                 IF path \in DOMAIN fm THEN fm[path].remoteMtime ELSE Epoch0
         IN IF remoteMtimeEpoch > lastKnownRemoteMtimeEpoch
            THEN "download_update" ELSE "skip"

\* lines 367-406: the operation chosen for a remote entry
ClassifyDownload(fm, lf, path, remoteMtimeEpoch) ==
    IF path \notin DOMAIN lf THEN "download_new"
    ELSE LET lastKnownRemoteMtimeEpoch ==
                 IF path \in DOMAIN fm THEN fm[path].remoteMtime ELSE Epoch0
         IN IF remoteMtimeEpoch > lastKnownRemoteMtimeEpoch
            THEN IF remoteMtimeEpoch > lf[path] THEN "download_update" ELSE "skip"
            ELSE "skip"

\* DownloadedState with the remote modifiedTime taken for the local mtime
DownloadedState_RemoteTime(remoteDriveFile, newMtime) ==
    [remoteId |-> remoteDriveFile.id,
     localMtimeEpoch |-> remoteDriveFile.modifiedTime,
     remoteMtime |-> remoteDriveFile.modifiedTime,
     remoteMd5 |-> remoteDriveFile.md5Checksum]

\* lines 433-438: the FileSyncState written after a download
DownloadedState(remoteDriveFile, newMtime) ==
    [remoteId |-> remoteDriveFile.id,
     localMtimeEpoch |-> newMtime,
     remoteMtime |-> remoteDriveFile.modifiedTime,
     remoteMd5 |-> remoteDriveFile.md5Checksum]

\* lines 410-447: fetch the content, write it, record the result
ExecuteDownload(r, path, operation) ==
    LET remoteDriveFile == run[r].remoteFilesMap[path]
        can == /\ remoteDriveFile.id \in DOMAIN remote
               /\ operation = "download_new" => path \notin DOMAIN local
    IN
    \/ \* downloadGoogleDriveFile returns null, or the write throws
       /\ Fails(~can)
       /\ SetRun(r, [run[r] EXCEPT !.queue = Tail(@), !.failed = TRUE,
                                   !.did = Note(r, "download_failed", path)])
       /\ UNCHANGED <<local, now, fileMap>>
    \/ /\ can
       /\ NoFault
       /\ \E t \in Stamps :
            /\ local' = Put(local, path,
                            [mtime |-> t, content |-> remote[remoteDriveFile.id].content])
            /\ now' = t
            /\ fileMap' = Put(fileMap, path, DownloadedState(remoteDriveFile, t))
            /\ SetRun(r, [run[r] EXCEPT !.queue = Tail(@),
                                        !.did = Note(r, "download", path)])

\* lines 365-448: one iteration of the loop over remoteFilesMap
DownloadStep(r) ==
    /\ run[r].pc = "download"
    /\ run[r].queue # <<>>
    /\ LET path == Head(run[r].queue)
           operation == ClassifyDownload(fileMap, run[r].localFiles, path,
                                         run[r].remoteFilesMap[path].modifiedTime)
       IN IF operation = "skip"
          THEN /\ SetRun(r, [run[r] EXCEPT !.queue = Tail(@)])
               /\ NoFault
               /\ UNCHANGED <<local, now, fileMap>>
          ELSE ExecuteDownload(r, path, operation)
    /\ UNCHANGED <<remote, nextId, persisted, prevClean, edits, started>>

\* line 449: saveSettings, then the loop over fileMap begins
DownloadDone(r) ==
    /\ run[r].pc = "download"
    /\ run[r].queue = <<>>
    /\ persisted' = fileMap
    /\ SetRun(r, [run[r] EXCEPT !.pc = "deleteRemote",
                                !.queue = SetToSeq(DOMAIN fileMap)])
    /\ UNCHANGED <<local, remote, nextId, now, fileMap, prevClean, edits, started, faults>>

\* ----------------------------------------------------- deletion passes
\* FailedRemoteDelete with the entry removed all the same
FailedRemoteDelete_Forgets(fm, pathInMap) == Del(fm, pathInMap)

\* lines 463-470: the fileMap after deleteGoogleDriveFile returned false
FailedRemoteDelete(fm, pathInMap) == fm

\* lines 454-472: a mapped path missing from localFiles is deleted on Drive
LocalDeletionStep(r) ==
    /\ run[r].pc = "deleteRemote"
    /\ run[r].queue # <<>>
    /\ LET pathInMap == Head(run[r].queue) IN
       IF pathInMap \in DOMAIN fileMap /\ pathInMap \notin DOMAIN run[r].localFiles
       THEN LET can == fileMap[pathInMap].remoteId \in DOMAIN remote IN
            \/ \* deleteGoogleDriveFile returns true
               /\ can
               /\ NoFault
               /\ remote' = Del(remote, fileMap[pathInMap].remoteId)
               /\ fileMap' = Del(fileMap, pathInMap)
               /\ SetRun(r, [run[r] EXCEPT !.queue = Tail(@),
                                           !.did = Note(r, "deleteRemote", pathInMap)])
            \/ \* it returns false
               /\ Fails(~can)
               /\ SetRun(r, [run[r] EXCEPT !.queue = Tail(@), !.failed = TRUE,
                                           !.did = Note(r, "deleteRemote_failed", pathInMap)])
               /\ fileMap' = FailedRemoteDelete(fileMap, pathInMap)
               /\ UNCHANGED remote
       ELSE /\ SetRun(r, [run[r] EXCEPT !.queue = Tail(@)])
            /\ NoFault
            /\ UNCHANGED <<remote, fileMap>>
    /\ UNCHANGED <<local, nextId, now, persisted, prevClean, edits, started>>

\* line 473: saveSettings, then the second loop over fileMap begins
LocalDeletionDone(r) ==
    /\ run[r].pc = "deleteRemote"
    /\ run[r].queue = <<>>
    /\ persisted' = fileMap
    /\ SetRun(r, [run[r] EXCEPT !.pc = "deleteLocal",
                                !.queue = SetToSeq(DOMAIN fileMap)])
    /\ UNCHANGED <<local, remote, nextId, now, fileMap, prevClean, edits, started, faults>>

\* ForgetMapping with the entry left in the map
ForgetMapping_Keeps(fm, pathInMap) == fm

\* line 500: delete this.settings.fileMap[pathInMap]
ForgetMapping(fm, pathInMap) == Del(fm, pathInMap)

\* FailedLocalDelete with the entry removed all the same
FailedLocalDelete_Forgets(fm, pathInMap) == Del(fm, pathInMap)

\* lines 492-497: the fileMap after vault.delete threw (continue)
FailedLocalDelete(fm, pathInMap) == fm

\* lines 479-502: a mapped path missing from remoteFilesMap is deleted locally
RemoteDeletionStep(r) ==
    /\ run[r].pc = "deleteLocal"
    /\ run[r].queue # <<>>
    /\ LET pathInMap == Head(run[r].queue) IN
       IF pathInMap \in DOMAIN fileMap /\ pathInMap \notin DOMAIN run[r].remoteFilesMap
       THEN IF pathInMap \in DOMAIN local
            THEN \/ \* vault.delete succeeds
                    /\ NoFault
                    /\ local' = Del(local, pathInMap)
                    /\ fileMap' = ForgetMapping(fileMap, pathInMap)
                    /\ SetRun(r, [run[r] EXCEPT !.queue = Tail(@),
                                                !.did = Note(r, "deleteLocal", pathInMap)])
                 \/ \* it throws: continue
                    /\ Fails(FALSE)
                    /\ SetRun(r, [run[r] EXCEPT !.queue = Tail(@), !.failed = TRUE,
                                                !.did = Note(r, "deleteLocal_failed", pathInMap)])
                    /\ fileMap' = FailedLocalDelete(fileMap, pathInMap)
                    /\ UNCHANGED local
            ELSE /\ fileMap' = ForgetMapping(fileMap, pathInMap)
                 /\ NoFault
                 /\ SetRun(r, [run[r] EXCEPT !.queue = Tail(@)])
                 /\ UNCHANGED local
       ELSE /\ SetRun(r, [run[r] EXCEPT !.queue = Tail(@)])
            /\ NoFault
            /\ UNCHANGED <<local, fileMap>>
    /\ UNCHANGED <<remote, nextId, now, persisted, prevClean, edits, started>>

\* RemoteDeletionDone for a run in which nothing failed only
RemoteDeletionDone_OnlyClean(r) ==
    /\ run[r].pc = "deleteLocal"
    /\ run[r].queue = <<>>
    /\ ~run[r].failed
    /\ SetRun(r, [run[r] EXCEPT !.pc = "done"])
    /\ UNCHANGED <<local, remote, nextId, now, fileMap, persisted, prevClean, edits,
                   started, faults>>

\* lines 502-508: the loop ends and syncNow returns; nothing is saved here
RemoteDeletionDone(r) ==
    /\ run[r].pc = "deleteLocal"
    /\ run[r].queue = <<>>
    /\ SetRun(r, [run[r] EXCEPT !.pc = "done"])
    /\ UNCHANGED <<local, remote, nextId, now, fileMap, persisted, prevClean, edits,
                   started, faults>>

\* The uploads of a run in which one failed and another succeeded.
LastOf(r) ==
    LET ups == {d \in run[r].did : d[1] \in {"upload", "upload_failed"}}
    IN IF {d[1] : d \in ups} = {"upload", "upload_failed"}
       THEN [uploads |-> ups, local |-> local, remote |-> remote]
       ELSE NoLast

\* the promise of syncNow settles; the command callback (lines 177-179) ends
Return(r) ==
    /\ run[r].pc = "done"
    /\ prevClean' = ~run[r].failed
    /\ SetRun(r, [IdleRun EXCEPT !.last = LastOf(r)])
    /\ UNCHANGED <<local, remote, nextId, now, fileMap, persisted, edits, started, faults>>

SyncNow(r) ==
    \/ StartSync(r) \/ LocalSnapshot(r) \/ RemoteSnapshot(r)
    \/ UploadStep(r) \/ UploadDone(r)
    \/ DownloadStep(r) \/ DownloadDone(r)
    \/ LocalDeletionStep(r) \/ LocalDeletionDone(r)
    \/ RemoteDeletionStep(r) \/ RemoteDeletionDone(r)
    \/ Return(r)

Outside ==
    \/ \E p \in EditPaths : LocalWrite(p) \/ LocalRemove(p) \/ RemoteWrite(p)
    \/ \E i \in 1..MaxIds : RemoteRemove(i)

\* The command is run again only after the run before it has returned.
Next == Outside \/ SyncNow(1)

Spec == Init /\ [][Next]_vars

\* syncNow is an async function on the event loop: each await it reaches is
\* settled in the end, so a run that can take a step takes one.  Two runs,
\* with changes made outside before and between them.
NextLive ==
    /\ Next
    /\ started' <= NRuns

SpecLive == Init /\ [][NextLive]_vars /\ WF_vars(SyncNow(1))

\* The command is run whenever the user asks: lines 174-180 start syncNow
\* with no look at a run in flight.  Each of the NRuns triggers runs once
\* and no operation is made to fail.
NextConc ==
    /\ \E r \in Runs : SyncNow(r)
    /\ faults' = faults
    /\ started' <= NRuns

SpecConc == Init /\ [][NextConc]_vars

\* ================================================================ claims
\* The run under observation, and what it started from.
R == run[1]
Pre == R.pre
Done == R.pc = "done"
CleanDone == Done /\ ~R.failed
InRun == R.pc \notin {"idle", "snapshot", "list"}
Changes == {"upload", "download", "deleteLocal", "deleteRemote", "backup"}
Acted == {d \in R.did : d[1] \in Changes}
RemoteNames == {remote[i].name : i \in DOMAIN remote}
PreRemoteNames == {Pre.remote[i].name : i \in DOMAIN Pre.remote}

\* C1: a run that follows a run without failures, with no local or remote
\* change in between, uploads, downloads, deletes and backs up nothing.
C1_Idempotence == (CleanDone /\ R.second) => Acted = {}

\* C2: the conflict case.  SyncState[p] = {T0, T0}, local mtime T1 > T0 and
\* remote modifiedTime T2 > T0: a run without failures leaves a new backup
\* path with p's old local content, p with the remote content, and
\* SyncState[p].remoteMtime = T2.
IsConflictCase(p) ==
    /\ p \in DOMAIN Pre.fileMap /\ p \in DOMAIN Pre.localFiles
    /\ p \in DOMAIN Pre.remoteFilesMap
    /\ Pre.fileMap[p].localMtimeEpoch = Pre.fileMap[p].remoteMtime
    /\ Pre.fileMap[p].remoteMtime # Epoch0
    /\ Pre.localFiles[p] > Pre.fileMap[p].localMtimeEpoch
    /\ Pre.remoteFilesMap[p].modifiedTime > Pre.fileMap[p].remoteMtime

ConflictResolved(p) ==
    /\ \E b \in (DOMAIN local) \ (DOMAIN Pre.local) :
         local[b].content = Pre.local[p].content
    /\ p \in DOMAIN local
    /\ local[p].content = Pre.remote[Pre.remoteFilesMap[p].id].content
    /\ p \in DOMAIN fileMap
    /\ fileMap[p].remoteMtime = Pre.remoteFilesMap[p].modifiedTime

C2_ConflictCase ==
    \A p \in DOMAIN Pre.fileMap : (CleanDone /\ IsConflictCase(p)) => ConflictResolved(p)

\* C3: a path only on Drive, with no SyncState, is in the vault and has a
\* SyncState entry at the end of a run without failures.
IsRemoteOnly(p) ==
    /\ p \in DOMAIN Pre.remoteFilesMap
    /\ p \notin DOMAIN Pre.local
    /\ p \notin DOMAIN Pre.fileMap

C3_NewRemoteFile ==
    \A p \in DOMAIN Pre.remoteFilesMap :
        (CleanDone /\ IsRemoteOnly(p)) => (p \in DOMAIN local /\ p \in DOMAIN fileMap)

\* C4: a path only in the vault, with no SyncState, is on Drive and has a
\* SyncState entry at the end of a run without failures.
IsLocalOnly(p) ==
    /\ p \in DOMAIN Pre.localFiles
    /\ p \notin PreRemoteNames
    /\ p \notin DOMAIN Pre.fileMap

C4_NewLocalFile ==
    \A p \in DOMAIN Pre.localFiles :
        (CleanDone /\ IsLocalOnly(p)) => (p \in RemoteNames /\ p \in DOMAIN fileMap)

C4_Witness ==
    \E p \in DOMAIN Pre.localFiles :
        /\ CleanDone /\ IsLocalOnly(p)
        /\ <<"upload", p>> \in R.did
        /\ p \in RemoteNames /\ p \in DOMAIN fileMap

\* C5: convergence.  After a run without failures every path that is on both
\* sides and has a SyncState entry has the local mtime and the remote
\* modifiedTime the entry records.
C5_Convergence ==
    \A p \in DOMAIN fileMap :
        (CleanDone /\ p \in DOMAIN local /\ p \in RemoteNames) =>
            /\ local[p].mtime = fileMap[p].localMtimeEpoch
            /\ \A i \in DOMAIN remote :
                 remote[i].name = p => remote[i].modifiedTime = fileMap[p].remoteMtime

\* C6: once the backup of a conflicted path p has failed, the file at p is
\* left as it was for the rest of the run.
C6_BackupFailureKeepsLocal ==
    \A p \in DOMAIN Pre.local :
        (InRun /\ <<"backup_failed", p>> \in R.did) =>
            (p \in DOMAIN local /\ local[p] = Pre.local[p])

\* C7: a file whose stat failed while the snapshot was built is no deletion:
\* every other file is in the snapshot, no remote delete is made for it and
\* its SyncState entry stays.
C7_StatFailureIsNoDeletion ==
    \A p \in (DOMAIN Pre.local) \ (DOMAIN Pre.localFiles) :
        InRun =>
            /\ Cardinality((DOMAIN Pre.local) \ (DOMAIN Pre.localFiles)) = 1 =>
                 (DOMAIN Pre.local) \ {p} = DOMAIN Pre.localFiles
            /\ <<"deleteRemote", p>> \notin R.did
            /\ p \in DOMAIN Pre.fileMap => p \in DOMAIN fileMap

\* C8: at most one run of syncNow is in progress at any time.
C8_MutualExclusion == Cardinality({r \in Runs : run[r].pc # "idle"}) <= 1

\* C9: a mapped path that is missing from the local snapshot and whose Drive
\* object is still there: after a run whose remote delete for it succeeded
\* the object is gone and the path has no SyncState entry.
IsLocallyDeleted(p) ==
    /\ p \in DOMAIN Pre.fileMap
    /\ p \notin DOMAIN Pre.localFiles
    /\ Pre.fileMap[p].remoteId \in DOMAIN Pre.remote

C9_LocalDeletionPropagates ==
    \A p \in DOMAIN Pre.fileMap :
        (Done /\ IsLocallyDeleted(p) /\ <<"deleteRemote", p>> \in R.did) =>
            /\ Pre.fileMap[p].remoteId \notin DOMAIN remote
            /\ p \notin DOMAIN fileMap

\* C10: a mapped path that is in the vault and missing from the remote
\* snapshot: after a run whose local delete of it succeeded the file is gone
\* and the path has no SyncState entry.
IsRemotelyDeleted(p) ==
    /\ p \in DOMAIN Pre.fileMap
    /\ p \in DOMAIN Pre.localFiles
    /\ p \notin DOMAIN Pre.remoteFilesMap

C10_RemoteDeletionPropagates ==
    \A p \in DOMAIN Pre.fileMap :
        (Done /\ IsRemotelyDeleted(p) /\ <<"deleteLocal", p>> \in R.did) =>
            (p \notin DOMAIN local /\ p \notin DOMAIN fileMap)

C10_Witness ==
    \E p \in DOMAIN Pre.fileMap :
        /\ Done /\ IsRemotelyDeleted(p) /\ <<"deleteLocal", p>> \in R.did
        /\ p \notin DOMAIN local /\ p \notin DOMAIN fileMap

\* The run went through its passes: it did not return at the token check.
Finished == Done /\ ~R.aborted

\* C11: a mapped path that is gone from the vault and from Drive is, at the
\* end of one run, in neither and has no SyncState entry, although the
\* remote delete for its stale id fails.
IsDeletedOnBothSides(p) ==
    /\ p \in DOMAIN Pre.fileMap
    /\ p \notin DOMAIN Pre.local
    /\ p \notin PreRemoteNames

C11_DeletedOnBothSides ==
    \A p \in DOMAIN Pre.fileMap :
        (Finished /\ IsDeletedOnBothSides(p)) =>
            (p \notin DOMAIN local /\ p \notin RemoteNames /\ p \notin DOMAIN fileMap)

C11_Witness ==
    \E p \in DOMAIN Pre.fileMap :
        /\ Finished /\ IsDeletedOnBothSides(p)
        /\ Pre.fileMap[p].remoteId \notin DOMAIN Pre.remote
        /\ p \notin DOMAIN local /\ p \notin RemoteNames /\ p \notin DOMAIN fileMap

\* C12: after a run in which the upload of one path failed and the uploads
\* of others succeeded, a run on the same vault and Drive, in which nothing
\* fails, uploads only what failed and does nothing to the paths whose
\* upload succeeded.
LastUploaded == {d[2] : d \in {e \in Pre.last : e[1] = "upload"}}
LastFailed == {d[2] : d \in {e \in Pre.last : e[1] = "upload_failed"}}

C12_PartialFailureResumable ==
    (CleanDone /\ Pre.last # {}) =>
        /\ \A d \in Acted : d[2] \notin LastUploaded \ LastFailed
        /\ \A d \in R.did : d[1] = "upload" => d[2] \in LastFailed

\* C13: the tie rule.  A path in both snapshots whose local mtime is the
\* recorded localMtimeEpoch and whose remote modifiedTime is the recorded
\* remoteMtime is left alone by the run: no upload, download, backup or
\* delete of it is made or tried.
IsTie(p) ==
    /\ p \in DOMAIN Pre.fileMap
    /\ p \in DOMAIN Pre.localFiles /\ p \in DOMAIN Pre.remoteFilesMap
    /\ Pre.localFiles[p] = Pre.fileMap[p].localMtimeEpoch
    /\ Pre.remoteFilesMap[p].modifiedTime = Pre.fileMap[p].remoteMtime

C13_TieRule ==
    \A p \in DOMAIN Pre.fileMap :
        (InRun /\ IsTie(p)) => \A d \in R.did : d[2] # p

C13_Witness ==
    \E p \in DOMAIN Pre.fileMap :
        /\ Finished /\ IsTie(p)
        /\ Pre.remoteFilesMap[p].modifiedTime > Pre.localFiles[p]
        /\ \A d \in R.did : d[2] # p
        /\ fileMap[p] = Pre.fileMap[p]

\* C14: checkpoints.  At the end of every run that went through its passes
\* the fileMap last saved is the fileMap in memory.
C14_Checkpoints == Finished => persisted = fileMap

\* C15: SyncState is not written ahead of the outcome.  In every step an
\* entry is written only together with a finished upload or download of its
\* path, removed only in a deletion pass, and a step in which an upload, a
\* download or a backup fails leaves the whole map as it was.
EntryOf(fm, p) == IF p \in DOMAIN fm THEN <<fm[p]>> ELSE <<>>
NewNotes == run[1].did' \ run[1].did

C15_NoSpeculativeWrite ==
    [][ /\ \A p \in (DOMAIN fileMap) \cup (DOMAIN fileMap') :
             EntryOf(fileMap, p) # EntryOf(fileMap', p) =>
                 IF p \in DOMAIN fileMap'
                 THEN NewNotes \cap {<<"upload", p>>, <<"download", p>>} # {}
                 ELSE run[1].pc \in {"deleteRemote", "deleteLocal"}
        /\ (\E d \in NewNotes : d[1] \in {"upload_failed", "download_failed",
                                            "backup_failed"})
              => fileMap' = fileMap
      ]_vars

C15_Witness ==
    \E p \in DOMAIN Pre.fileMap :
        /\ InRun /\ <<"upload_failed", p>> \in R.did
        /\ p \in DOMAIN local
        /\ EntryOf(fileMap, p) = EntryOf(Pre.fileMap, p)

\* C16: at the end of a run a path has a SyncState entry exactly when an
\* upload or a download of it has been completed, in this run or in one
\* before it (it had an entry when the run began), and it is still in the
\* vault or on Drive.
Completed == {d[2] : d \in {e \in R.did : e[1] \in {"upload", "download"}}}

C16_SyncStateExistence ==
    Finished =>
        \A p \in (DOMAIN fileMap) \cup (DOMAIN Pre.fileMap) \cup Completed :
            p \in DOMAIN fileMap <=>
                /\ p \in (DOMAIN Pre.fileMap) \cup Completed
                /\ p \in DOMAIN local \/ p \in RemoteNames

\* C17: a failure of an operation on one path does not stop the run.  The
\* step in which it fails takes that path off the pass and leaves the others
\* on it, a pass is left only when no path is left on it, and the run goes
\* on through the four passes to its end.
FailureNotes ==
    {"upload_failed", "download_failed", "backup_failed", "deleteRemote_failed",
     "deleteLocal_failed"}

FailureKeepsPass ==
    (\E d \in NewNotes : d[1] \in FailureNotes) =>
        (run[1].pc' = run[1].pc /\ run[1].queue' = Tail(run[1].queue))

PassLeftWhenEmpty ==
    (InRun /\ ~Done /\ run[1].pc' # run[1].pc) => run[1].queue = <<>>

C17_RunReachesEnd ==
    /\ [][FailureKeepsPass /\ PassLeftWhenEmpty]_vars
    /\ (InRun /\ R.failed) ~> Done

C17_Witness ==
    /\ Finished
    /\ \E d \in R.did, e \in R.did :
          /\ d[1] \in FailureNotes /\ e[1] \in Changes
          /\ d[2] # e[2]

\* C18: a mapped path that is in the vault while its recorded remote id
\* resolves to nothing and the remote snapshot does not list it is handled
\* as a path without SyncState: the file stays in the vault and, when
\* nothing fails, it is uploaded as a new Drive object.
IsStaleId(p) ==
    /\ p \in DOMAIN Pre.fileMap
    /\ p \in DOMAIN Pre.localFiles
    /\ p \notin DOMAIN Pre.remoteFilesMap
    /\ Pre.fileMap[p].remoteId \notin DOMAIN Pre.remote

C18_StaleIdIsNew ==
    \A p \in DOMAIN Pre.fileMap :
        (Finished /\ IsStaleId(p)) =>
            /\ p \in DOMAIN local
            /\ ~R.failed =>
                 /\ <<"upload", p>> \in R.did
                 /\ p \in DOMAIN fileMap
                 /\ fileMap[p].remoteId # Pre.fileMap[p].remoteId

\* C19: without a token the run stops.  When the token check at the start
\* fails, or the listing gets no token, and no Drive request of the run
\* succeeds afterwards, the vault and the SyncState map stay as they were
\* when the run began.
NoToken ==
    \/ R.aborted
    \/ /\ <<"list_failed", <<>>>> \in R.did
       /\ \A d \in R.did : d[1] \notin {"upload", "download", "deleteRemote"}

C19_AuthFailureAborts ==
    ((InRun \/ Done) /\ NoToken) => (local = Pre.local /\ fileMap = Pre.fileMap)

\* C20: the backup of a conflicted path is a new local file without a
\* SyncState entry.  It gets an entry only by its own upload, which makes a
\* Drive object that was not there before, and when nothing fails that
\* upload is done before the run ends.
Backups == {d[2] : d \in {e \in R.did : e[1] = "backup_at"}}

C20_BackupUploadedAsNew ==
    InRun =>
        \A b \in Backups :
            /\ b \notin DOMAIN Pre.local /\ b \notin DOMAIN Pre.fileMap
            /\ b \in DOMAIN fileMap =>
                 /\ <<"upload", b>> \in R.did
                 /\ fileMap[b].remoteId \notin DOMAIN Pre.remote
            /\ CleanDone =>
                 /\ b \in DOMAIN local /\ b \in DOMAIN fileMap
                 /\ \E i \in DOMAIN remote :
                      /\ remote[i].name = b
                      /\ remote[i].content = local[b].content

C20_Witness ==
    \E b \in Backups :
        /\ CleanDone
        /\ <<"backup", SubSeq(b, 1, Len(b) - 1)>> \in R.did
        /\ <<"upload", b>> \in R.did
        /\ b \in DOMAIN fileMap /\ b \in RemoteNames

\* C21: the step that completes an upload of a path, with no request of it
\* failing, records the id the upload returned, the local mtime of the
\* snapshot, and the modifiedTime the Drive object has after the upload.
UploadedNow == {d[2] : d \in {e \in NewNotes : e[1] = "upload"}}

C21_UploadRecordsRemoteMetadata ==
    [][ \A p \in UploadedNow :
          faults' = faults =>
            /\ p \in DOMAIN fileMap'
            /\ fileMap'[p].remoteId \in DOMAIN remote'
            /\ remote'[fileMap'[p].remoteId].name = p
            /\ remote'[fileMap'[p].remoteId].content = local[p].content
            /\ fileMap'[p].localMtimeEpoch = run[1].localFiles[p]
            /\ fileMap'[p].remoteMtime = remote'[fileMap'[p].remoteId].modifiedTime
      ]_vars

\* A step of the upload pass and the path it handles, as the pass sees it.
InUploadStep == run[1].pc = "upload" /\ run[1].queue # <<>> /\ run' # run
UploadPath == Head(run[1].queue)
Mapped(p) == p \in DOMAIN fileMap
LocalMtime(p) == run[1].localFiles[p]
Listed(p) == p \in DOMAIN run[1].remoteFilesMap
ListedMtime(p) == run[1].remoteFilesMap[p].modifiedTime
LocalChanged(p) == LocalMtime(p) > fileMap[p].localMtimeEpoch
RemoteChanged(p) == Listed(p) /\ ListedMtime(p) > fileMap[p].remoteMtime
TookConflict(p) == \E d \in NewNotes : d[2] = p /\ d[1] \in {"backup", "backup_failed"}
TriedUpload(p) == \E d \in NewNotes : d[2] = p /\ d[1] \in {"upload", "upload_failed"}
NothingDone == local' = local /\ remote' = remote /\ fileMap' = fileMap

\* C22: in the upload pass a mapped path is handled as a conflict exactly
\* when its local mtime is greater than the recorded one and the remote
\* snapshot lists it with a modifiedTime greater than the recorded
\* remoteMtime; the step that handles a conflict uploads nothing.
C22_ConflictClassification ==
    [][ (InUploadStep /\ Mapped(UploadPath)) =>
          /\ TookConflict(UploadPath) <=>
                (LocalChanged(UploadPath) /\ RemoteChanged(UploadPath))
          /\ TookConflict(UploadPath) =>
                (~TriedUpload(UploadPath) /\ remote' = remote /\ fileMap' = fileMap)
      ]_vars

C22_Witness ==
    \E p \in DOMAIN Pre.fileMap :
        /\ R.pc = "upload"
        /\ <<"backup", p>> \in R.did
        /\ Pre.remoteFilesMap[p].modifiedTime > Pre.fileMap[p].remoteMtime
        /\ \A d \in R.did : d[2] = p => d[1] = "backup"

\* C23: in the upload pass a mapped path whose local mtime is not greater
\* than the recorded one is left alone, whatever Drive lists for it.
C23_UnchangedLocalSkipped ==
    [][ (InUploadStep /\ Mapped(UploadPath) /\ ~LocalChanged(UploadPath)) =>
          (NewNotes = {} /\ NothingDone)
      ]_vars

C23_Witness ==
    \E p \in DOMAIN Pre.fileMap :
        /\ R.pc = "download"
        /\ p \in DOMAIN Pre.localFiles /\ p \in DOMAIN Pre.remoteFilesMap
        /\ Pre.localFiles[p] <= Pre.fileMap[p].localMtimeEpoch
        /\ Pre.remoteFilesMap[p].modifiedTime > Pre.fileMap[p].remoteMtime
        /\ \A d \in R.did : d[2] # p
        /\ local[p] = Pre.local[p]

\* C24: in the upload pass a mapped path whose local mtime is greater than
\* the recorded one, and whose remote entry has not moved past the recorded
\* remoteMtime, is uploaded exactly when Drive does not list it or its local
\* mtime is greater than the listed modifiedTime; the upload goes to the
\* recorded remoteId and makes no new object.
C24_UpdateClassification ==
    [][ (InUploadStep /\ Mapped(UploadPath) /\ LocalChanged(UploadPath)
           /\ ~RemoteChanged(UploadPath)) =>
          /\ TriedUpload(UploadPath) <=>
                (~Listed(UploadPath) \/ LocalMtime(UploadPath) > ListedMtime(UploadPath))
          /\ <<"upload", UploadPath>> \in NewNotes =>
                /\ fileMap'[UploadPath].remoteId = fileMap[UploadPath].remoteId
                /\ DOMAIN remote' = DOMAIN remote
                /\ nextId' = nextId
      ]_vars

C24_Witness ==
    \E p \in DOMAIN Pre.fileMap :
        /\ R.pc = "upload"
        /\ <<"upload", p>> \in R.did
        /\ Pre.localFiles[p] > Pre.fileMap[p].localMtimeEpoch
        /\ fileMap[p].remoteId = Pre.fileMap[p].remoteId
        /\ remote[fileMap[p].remoteId].content = local[p].content

\* C25: in the upload pass a path without a SyncState entry is uploaded as
\* a new Drive object, with an id of its own, also when the remote snapshot
\* lists an object of that name.
C25_NewClassification ==
    [][ (InUploadStep /\ ~Mapped(UploadPath)) =>
          /\ TriedUpload(UploadPath)
          /\ <<"upload", UploadPath>> \in NewNotes =>
                /\ fileMap'[UploadPath].remoteId \notin DOMAIN remote
                /\ fileMap'[UploadPath].remoteId \in DOMAIN remote'
                /\ \A i \in DOMAIN remote : remote'[i] = remote[i]
      ]_vars

C25_Witness ==
    \E p \in DOMAIN Pre.remoteFilesMap :
        /\ R.pc = "upload"
        /\ p \notin DOMAIN Pre.fileMap
        /\ <<"upload", p>> \in R.did
        /\ fileMap[p].remoteId # Pre.remoteFilesMap[p].id
        /\ Cardinality({i \in DOMAIN remote : remote[i].name = p}) > 1

\* C26: in the upload pass a mapped path whose local mtime is greater than
\* the recorded one, while Drive lists it with a modifiedTime not greater
\* than the recorded remoteMtime and not less than the local mtime, is left
\* alone: no upload, no backup.
C26_DeferredToDownload ==
    [][ (InUploadStep /\ Mapped(UploadPath) /\ LocalChanged(UploadPath)
           /\ Listed(UploadPath) /\ ~RemoteChanged(UploadPath)
           /\ ListedMtime(UploadPath) >= LocalMtime(UploadPath)) =>
          (NewNotes = {} /\ NothingDone)
      ]_vars

C26_Witness ==
    \E p \in DOMAIN Pre.fileMap :
        /\ R.pc = "download"
        /\ p \in DOMAIN Pre.localFiles /\ p \in DOMAIN Pre.remoteFilesMap
        /\ Pre.localFiles[p] > Pre.fileMap[p].localMtimeEpoch
        /\ Pre.remoteFilesMap[p].modifiedTime <= Pre.fileMap[p].remoteMtime
        /\ Pre.remoteFilesMap[p].modifiedTime >= Pre.localFiles[p]
        /\ \A d \in R.did : d[2] # p
        /\ local[p] = Pre.local[p]

\* A step of the download pass and the remote entry it handles.
InDownloadStep == run[1].pc = "download" /\ run[1].queue # <<>> /\ run' # run
DownloadPath == Head(run[1].queue)
InLocalFiles(p) == p \in DOMAIN run[1].localFiles
LastKnownRemoteMtime(p) == IF Mapped(p) THEN fileMap[p].remoteMtime ELSE Epoch0
TriedDownload(p) ==
    \E d \in NewNotes : d[2] = p /\ d[1] \in {"download", "download_failed"}

\* C27: in the download pass a remote entry whose path is in the local
\* snapshot and whose modifiedTime is not greater than the last known
\* remoteMtime (0 without one) is left alone; the local file is not
\* overwritten.
C27_RemoteUnchangedSkipped ==
    [][ (InDownloadStep /\ InLocalFiles(DownloadPath)
           /\ ListedMtime(DownloadPath) <= LastKnownRemoteMtime(DownloadPath)) =>
          (NewNotes = {} /\ NothingDone)
      ]_vars

C27_Witness ==
    \E p \in DOMAIN Pre.fileMap :
        /\ R.pc = "deleteRemote"
        /\ p \in DOMAIN Pre.localFiles /\ p \in DOMAIN Pre.remoteFilesMap
        /\ Pre.remoteFilesMap[p].modifiedTime <= Pre.fileMap[p].remoteMtime
        /\ Pre.remoteFilesMap[p].modifiedTime > Pre.localFiles[p]
        /\ \A d \in R.did : d[2] # p
        /\ local[p] = Pre.local[p]

C29_DownloadRecordsState ==
    [][ InDownloadStep =>
          /\ <<"download", DownloadPath>> \in NewNotes =>
                /\ DownloadPath \in DOMAIN fileMap'
                /\ fileMap'[DownloadPath] =
                     [remoteId |-> run[1].remoteFilesMap[DownloadPath].id,
                      remoteMtime |-> ListedMtime(DownloadPath),
                      remoteMd5 |-> run[1].remoteFilesMap[DownloadPath].md5Checksum,
                      localMtimeEpoch |-> local'[DownloadPath].mtime]
          /\ <<"download_failed", DownloadPath>> \in NewNotes =>
                (fileMap' = fileMap /\ local' = local)
      ]_vars

C29_Witness ==
    \E p \in DOMAIN fileMap :
        /\ R.pc = "download"
        /\ <<"download", p>> \in R.did
        /\ p \in DOMAIN local
        /\ fileMap[p].localMtimeEpoch = local[p].mtime
        /\ fileMap[p].localMtimeEpoch > fileMap[p].remoteMtime
        /\ fileMap[p].remoteId = R.remoteFilesMap[p].id

\* C30: in the remote-deletion pass a mapped path that the remote snapshot
\* does not list loses its SyncState entry, whether its local file was
\* there (it is deleted) or not, unless the local delete fails: then the
\* entry and the local file both stay.
InRemoteDeletionStep ==
    run[1].pc = "deleteLocal" /\ run[1].queue # <<>> /\ run' # run
DeletionPath == Head(run[1].queue)

C30_RemoteDeletionPass ==
    [][ (InRemoteDeletionStep /\ Mapped(DeletionPath) /\ ~Listed(DeletionPath)) =>
          IF <<"deleteLocal_failed", DeletionPath>> \in NewNotes
          THEN /\ fileMap' = fileMap
               /\ local' = local /\ DeletionPath \in DOMAIN local
          ELSE /\ DeletionPath \notin DOMAIN fileMap'
               /\ DeletionPath \notin DOMAIN local'
               /\ \A q \in (DOMAIN fileMap) \ {DeletionPath} :
                    q \in DOMAIN fileMap' /\ fileMap'[q] = fileMap[q]
      ]_vars

C30_Witness ==
    \E p \in DOMAIN Pre.fileMap, q \in DOMAIN Pre.fileMap :
        /\ Finished
        /\ <<"deleteLocal", p>> \in R.did
        /\ p \notin DOMAIN fileMap /\ p \notin DOMAIN local
        /\ <<"deleteLocal_failed", q>> \in R.did
        /\ q \in DOMAIN fileMap /\ q \in DOMAIN local

\* C31: in the local-deletion pass a mapped path that the local snapshot
\* does not have gets a remote delete of its recorded remoteId; the entry is
\* removed when the delete succeeds and the map is left as it was when it
\* fails.
InLocalDeletionStep ==
    run[1].pc = "deleteRemote" /\ run[1].queue # <<>> /\ run' # run

C31_LocalDeletionPass ==
    [][ (InLocalDeletionStep /\ Mapped(DeletionPath) /\ ~InLocalFiles(DeletionPath)) =>
          IF <<"deleteRemote", DeletionPath>> \in NewNotes
          THEN /\ fileMap[DeletionPath].remoteId \in DOMAIN remote
               /\ DOMAIN remote' = (DOMAIN remote) \ {fileMap[DeletionPath].remoteId}
               /\ DeletionPath \notin DOMAIN fileMap'
               /\ \A q \in (DOMAIN fileMap) \ {DeletionPath} :
                    q \in DOMAIN fileMap' /\ fileMap'[q] = fileMap[q]
          ELSE /\ <<"deleteRemote_failed", DeletionPath>> \in NewNotes
               /\ fileMap' = fileMap
               /\ remote' = remote
      ]_vars

C31_Witness ==
    \E p \in DOMAIN Pre.fileMap, q \in DOMAIN Pre.fileMap :
        /\ R.pc = "deleteLocal"
        /\ <<"deleteRemote", p>> \in R.did
        /\ p \notin DOMAIN fileMap /\ Pre.fileMap[p].remoteId \notin DOMAIN remote
        /\ <<"deleteRemote_failed", q>> \in R.did
        /\ q \in DOMAIN fileMap /\ fileMap[q] = Pre.fileMap[q]

\* C32: after the backup of a conflicted path p has failed, the run makes
\* no upload of p, and as long as the upload pass lasts the Drive objects
\* named p and SyncState[p] are as they were when the run began.
ObjectsNamed(rem, p) == {<<i, rem[i]>> : i \in {j \in DOMAIN rem : rem[j].name = p}}

C32_BackupFailureSkipsUpload ==
    \A p \in DOMAIN Pre.fileMap :
        (InRun /\ <<"backup_failed", p>> \in R.did) =>
            /\ \A d \in R.did : d[2] = p => d[1] \notin {"upload", "upload_failed"}
            /\ R.pc = "upload" =>
                 /\ EntryOf(fileMap, p) = EntryOf(Pre.fileMap, p)
                 /\ ObjectsNamed(remote, p) = ObjectsNamed(Pre.remote, p)

C32_Witness ==
    \E p \in DOMAIN Pre.fileMap :
        /\ R.pc = "upload" /\ R.queue = <<>>
        /\ <<"backup_failed", p>> \in R.did
        /\ p \in DOMAIN local
        /\ EntryOf(fileMap, p) = EntryOf(Pre.fileMap, p)
        /\ ObjectsNamed(remote, p) = ObjectsNamed(Pre.remote, p)

\* C33: a step of the upload pass or of the download pass adds, changes or
\* removes no SyncState entry but that of the path it handles.
C33_PerPathIndependence ==
    [][ /\ InUploadStep =>
             \A q \in ((DOMAIN fileMap) \cup (DOMAIN fileMap')) \ {UploadPath} :
                 EntryOf(fileMap', q) = EntryOf(fileMap, q)
        /\ InDownloadStep =>
             \A q \in ((DOMAIN fileMap) \cup (DOMAIN fileMap')) \ {DownloadPath} :
                 EntryOf(fileMap', q) = EntryOf(fileMap, q)
      ]_vars

C33_Witness ==
    \E p \in DOMAIN fileMap, q \in DOMAIN Pre.fileMap :
        /\ p # q
        /\ R.pc \in {"upload", "download"}
        /\ \E d \in R.did : d[2] = p /\ d[1] \in {"upload", "download"}
        /\ EntryOf(fileMap, p) # EntryOf(Pre.fileMap, p)
        /\ EntryOf(fileMap, q) = EntryOf(Pre.fileMap, q)

\* C34: a run whose listing of the Drive folder failed deletes no local file
\* and removes the SyncState entry of no path that is in its local snapshot.
C34_FailedListingDeletesNothing ==
    (InRun /\ <<"list_failed", <<>>>> \in R.did) =>
        /\ \A d \in R.did : d[1] # "deleteLocal"
        /\ \A p \in (DOMAIN Pre.fileMap) \cap (DOMAIN Pre.localFiles) :
             p \in DOMAIN fileMap /\ p \in DOMAIN local

\* C35: a mapped path whose local mtime in the run's snapshot is greater than
\* the recorded localMtimeEpoch and which the remote snapshot does not list is
\* deleted from the vault by the run only after its content was uploaded or
\* copied to a backup path in that run.
HasUnsyncedEdits(p) ==
    /\ p \in DOMAIN Pre.fileMap /\ p \in DOMAIN Pre.localFiles
    /\ p \notin DOMAIN Pre.remoteFilesMap
    /\ Pre.localFiles[p] > Pre.fileMap[p].localMtimeEpoch

C35_UnsyncedEditsNotDeleted ==
    \A p \in DOMAIN Pre.fileMap :
        (InRun /\ HasUnsyncedEdits(p) /\ <<"deleteLocal", p>> \in R.did) =>
            (<<"upload", p>> \in R.did \/ <<"backup", p>> \in R.did)

\* C36: a path uploaded in a run is not deleted from the vault by the
\* remote-deletion pass of the same run.
C36_UploadedNotDeleted ==
    InRun => \A d \in R.did : d[1] = "upload" => <<"deleteLocal", d[2]>> \notin R.did

\* C37: a mapped path that is absent from the local snapshot and whose Drive
\* object is listed with the recorded modifiedTime is not downloaded by the
\* run, and is absent from the vault when the run ends without a failure.
IsDeletedLocallyOnly(p) ==
    /\ p \in DOMAIN Pre.fileMap /\ p \notin DOMAIN Pre.localFiles
    /\ p \in DOMAIN Pre.remoteFilesMap
    /\ Pre.remoteFilesMap[p].id = Pre.fileMap[p].remoteId
    /\ Pre.remoteFilesMap[p].modifiedTime = Pre.fileMap[p].remoteMtime

C37_LocalDeletionNotUndone ==
    \A p \in DOMAIN Pre.fileMap :
        (InRun /\ IsDeletedLocallyOnly(p)) => <<"download", p>> \notin R.did

\* C38: no step of a run makes two Drive objects of one name out of a folder
\* with at most one object per name.
UniqueNames(rem) == \A i, j \in DOMAIN rem : rem[i].name = rem[j].name => i = j

C38_RemoteNamesUnique ==
    [][ (run' # run /\ UniqueNames(remote)) => UniqueNames(remote') ]_vars

\* C39: repeated runs come to rest.  What a run does with a path is decided
\* by the path's file, its Drive objects and its SyncState entry alone, so a
\* run without failures that acted on a path must leave at least one of the
\* three different from what it found; otherwise every later run acts on the
\* path again.
PathState(loc, rem, fm, p) ==
    <<EntryOf(loc, p), ObjectsNamed(rem, p), EntryOf(fm, p)>>

C39_EventualQuiescence ==
    CleanDone =>
        \A d \in Acted :
            PathState(local, remote, fileMap, d[2])
                # PathState(Pre.local, Pre.remote, Pre.fileMap, d[2])

\* C40: the upload pass ends although localFiles grows while it is iterated.
\* A conflict backup path set into localFiles during the pass, with a name
\* that had no SyncState entry when the run began, is visited later in the
\* same pass; the step that visits it uploads it as a new file, makes no
\* backup and adds nothing to what is left to visit; and a run in the upload
\* pass leaves the pass.
QueuedBackups == {b \in Backups \cap DOMAIN R.localFiles : b \notin DOMAIN Pre.fileMap}
Visited(b) == \E d \in R.did : d[2] = b /\ d[1] \in {"upload", "upload_failed"}
ToVisit(b) == \E i \in 1..Len(R.queue) : R.queue[i] = b

BackupVisitedAsNew ==
    (InUploadStep /\ UploadPath \in QueuedBackups) =>
        /\ ~Mapped(UploadPath)
        /\ TriedUpload(UploadPath)
        /\ ~TookConflict(UploadPath)
        /\ run[1].queue' = Tail(run[1].queue)

BackupsAreVisited ==
    InRun => \A b \in QueuedBackups :
                IF R.pc = "upload" THEN ToVisit(b) \/ Visited(b) ELSE Visited(b)

C40_UploadPassTerminates ==
    /\ [][BackupVisitedAsNew]_vars
    /\ []BackupsAreVisited
    /\ (R.pc = "upload") ~> (R.pc # "upload")

C40_Witness ==
    /\ R.pc = "download"
    /\ \E b \in QueuedBackups :
          /\ <<"upload", b>> \in R.did
          /\ b \in DOMAIN local /\ b \in DOMAIN fileMap
          /\ Cardinality(Backups) = 1

====
